---- MODULE Spec2Model ----
(***************************************************************************)
(* Model of the RAG repository's core: the chunker (db_setup.chunk_text),  *)
(* the indexer (db_setup.ingest_uploaded_documents) and the question       *)
(* splitter (streamlit_app.split_user_questions).                          *)
(*                                                                         *)
(* A Python str is a sequence of one-character strings; indices in the     *)
(* operators named after Python built-ins are 0-based as in the source.    *)
(***************************************************************************)
EXTENDS Integers, Sequences, FiniteSets, TLC

VARIABLES
    \* chunk_text: arguments and locals
    text, chunk_size, overlap, start, end, chunk, chunks, ct_pc,
    \* split_user_questions: argument and result
    question, numbered, sq_pc,
    \* the file system and the vector store's collection
    files, collection, uuid_ctr,
    \* ingest_uploaded_documents: arguments, locals and result of the last call
    file_paths, base_doc_id, texts, all_docs, doc_count, upsert_calls, ing_pc,
    \* whether the last call ingested again, unchanged, the batch of the call before it
    repeated,
    \* st.session_state of the chat application
    chats, current_chat_id, db_initialized, agents, chat_ctr,
    \* the persisted collection exists; a chunk was upserted during this session
    coll_exists, upserted,
    \* the script run handling a Send: the text area's content, the locals of
    \* main and run_rag_pipeline, and the position in the pipeline
    ui_question, sub_questions, sub_idx, retrieved, reasoned, combined_markdown, app_pc,
    \* the calls the current script run made on the stages and the store, and
    \* what the run showed to the user
    calls, outcome

vars == <<text, chunk_size, overlap, start, end, chunk, chunks, ct_pc,
          question, numbered, sq_pc,
          files, collection, uuid_ctr,
          file_paths, base_doc_id, texts, all_docs, doc_count, upsert_calls, ing_pc,
          repeated,
          chats, current_chat_id, db_initialized, agents, chat_ctr, coll_exists, upserted,
          ui_question, sub_questions, sub_idx, retrieved, reasoned, combined_markdown, app_pc,
          calls, outcome>>

ct_vars == <<text, chunk_size, overlap, start, end, chunk, chunks, ct_pc>>
sq_vars == <<question, numbered, sq_pc>>
call_vars == <<file_paths, base_doc_id, texts, all_docs, doc_count, upsert_calls, ing_pc,
               repeated>>
ing_vars == <<files, collection, uuid_ctr, call_vars>>
session_vars == <<chats, current_chat_id, db_initialized, agents, chat_ctr>>
run_vars == <<ui_question, sub_questions, sub_idx, retrieved, reasoned, combined_markdown>>
app_vars == <<session_vars, coll_exists, upserted, run_vars, app_pc, calls, outcome>>

(***************************************************************************)
(* Bounds of the model.                                                    *)
(***************************************************************************)
MaxTextLen == 7
MaxQuestionLen == 4
MaxBodyLen == 2
MaxLines == 2
MaxFiles == 2
MaxUuid == 1
MaxEntries == 3

(***************************************************************************)
(* Python built-ins on str.                                                *)
(***************************************************************************)
Whitespace == {" ", "\t", "\n", "\r", "\f"}
LineBreaks == {"\n", "\r", "\f"}
Digits == {"0", "1", "2", "3", "4", "5", "6", "7", "8", "9"}

\* s[a:b]
PySlice(s, a, b) ==
    LET n == Len(s)
        lo == IF a < 0 THEN (IF n + a < 0 THEN 0 ELSE n + a)
                       ELSE (IF a > n THEN n ELSE a)
        hi == IF b < 0 THEN (IF n + b < 0 THEN 0 ELSE n + b)
                       ELSE (IF b > n THEN n ELSE b)
    IN  IF hi <= lo THEN <<>> ELSE SubSeq(s, lo + 1, hi)

\* s.rfind(c): 0-based index of the last c, or -1
rfind(s, c) ==
    LET n == Len(s)
    IN  IF \A i \in 1..n : s[i] # c THEN -1
        ELSE (CHOOSE i \in 1..n : s[i] = c /\ \A j \in (i + 1)..n : s[j] # c) - 1

\* s.strip()
strip(s) ==
    LET n == Len(s)
    IN  IF \A i \in 1..n : s[i] \in Whitespace THEN <<>>
        ELSE LET first == CHOOSE i \in 1..n :
                             s[i] \notin Whitespace /\ \A j \in 1..(i - 1) : s[j] \in Whitespace
                 last == IF s[n] \notin Whitespace THEN n
                         ELSE CHOOSE i \in 1..n :
                             s[i] \notin Whitespace /\ \A j \in (i + 1)..n : s[j] \in Whitespace
             IN  SubSeq(s, first, last)

isdigit(c) == c \in Digits

(***************************************************************************)
(* chunk_text, one iteration of the while loop (db_setup.py 132-146):      *)
(* the window, the boundary snap, and the next scan position.              *)
(***************************************************************************)
BreakPoint(t, size, st) ==
    LET window == PySlice(t, st, st + size)
        last_period == rfind(window, ".")
        last_newline == rfind(window, "\n")
    IN  IF last_period > last_newline THEN last_period ELSE last_newline

Snaps(t, size, st) ==
    /\ st + size < Len(t)
    /\ BreakPoint(t, size, st) > st + (size \div 2)

ChunkIter(t, size, ov, st) ==
    LET window == PySlice(t, st, st + size)
        bp == BreakPoint(t, size, st)
        snap == Snaps(t, size, st)
        c == IF snap THEN PySlice(window, 0, bp + 1) ELSE window
        e == IF snap THEN st + bp + 1 ELSE st + size
    IN  [chunk |-> c, end |-> e, start |-> e - ov]

(***************************************************************************)
(* chunk_text as a state machine over its locals.                          *)
(***************************************************************************)
TextAlphabet == {"a", ".", " ", "\n"}
ChunkSizes == {5}

RECURSIVE SeqsUpTo(_, _)
SeqsUpTo(A, n) ==
    IF n = 0 THEN {<<>>}
    ELSE LET shorter == SeqsUpTo(A, n - 1)
         IN  shorter \cup {Append(s, a) : s \in {x \in shorter : Len(x) = n - 1}, a \in A}

ChunkIdle ==
    /\ text = <<>> /\ chunk_size = 0 /\ overlap = 0
    /\ start = 0 /\ end = 0 /\ chunk = <<>> /\ chunks = <<>> /\ ct_pc = "off"
SplitIdle == question = <<>> /\ numbered = <<>> /\ sq_pc = "off"
IngestIdle ==
    /\ files = <<>> /\ collection = <<>> /\ uuid_ctr = 0
    /\ file_paths = <<>> /\ base_doc_id = "None" /\ texts = <<>>
    /\ all_docs = <<>> /\ doc_count = 0 /\ upsert_calls = 0 /\ ing_pc = "off"
    /\ repeated = FALSE
AppIdle ==
    /\ chats = <<>> /\ current_chat_id = "None" /\ db_initialized = FALSE
    /\ agents = "None" /\ chat_ctr = 0 /\ coll_exists = FALSE /\ upserted = FALSE
    /\ ui_question = <<>> /\ sub_questions = <<>> /\ sub_idx = 0
    /\ retrieved = <<>> /\ reasoned = <<>> /\ combined_markdown = <<>>
    /\ app_pc = "off" /\ calls = <<>> /\ outcome = "none"

ChunkInit ==
    /\ text \in SeqsUpTo(TextAlphabet, MaxTextLen)
    /\ chunk_size \in ChunkSizes
    /\ overlap \in 0..(chunk_size - 1)
    /\ start = 0 /\ end = 0 /\ chunk = <<>> /\ chunks = <<>>
    /\ ct_pc = "entry"

\* lines 125-129: the short-text return, or entry into the loop
ChunkShort ==
    /\ ct_pc = "entry"
    /\ Len(text) <= chunk_size
    /\ chunks' = <<text>>
    /\ ct_pc' = "done"
    /\ UNCHANGED <<text, chunk_size, overlap, start, end, chunk>>

ChunkEnter ==
    /\ ct_pc = "entry"
    /\ Len(text) > chunk_size
    /\ chunks' = <<>>
    /\ start' = 0
    /\ ct_pc' = "loop"
    /\ UNCHANGED <<text, chunk_size, overlap, end, chunk>>

\* lines 131-146: one pass of the while body
ChunkStep ==
    /\ ct_pc = "loop"
    /\ start < Len(text)
    /\ Len(chunks) < MaxTextLen + 2
    /\ LET it == ChunkIter(text, chunk_size, overlap, start)
       IN  /\ chunk' = it.chunk
           /\ end' = it.end
           /\ chunks' = Append(chunks, strip(it.chunk))
           /\ start' = it.start
    /\ UNCHANGED <<text, chunk_size, overlap, ct_pc>>

\* line 148
ChunkReturn ==
    /\ ct_pc = "loop"
    /\ start >= Len(text)
    /\ ct_pc' = "done"
    /\ UNCHANGED <<text, chunk_size, overlap, start, end, chunk, chunks>>

ChunkNext ==
    /\ \/ ChunkShort
       \/ ChunkEnter
       \/ ChunkStep
       \/ ChunkReturn
    /\ UNCHANGED <<sq_vars, ing_vars, app_vars>>

InitChunk == ChunkInit /\ SplitIdle /\ IngestIdle /\ AppIdle
SpecChunk == InitChunk /\ [][ChunkNext]_vars

(***************************************************************************)
(* Claims about chunk_text (checked under SpecChunk).                      *)
(***************************************************************************)
Last(s) == s[Len(s)]
Tail_n(s, n) == SubSeq(s, Len(s) - n + 1, Len(s))
Head_n(s, n) == SubSeq(s, 1, n)

\* a pass of the while body is being taken
LoopPass == ct_pc = "loop" /\ start < Len(text) /\ chunks' # chunks

\* the previous pass cut its chunk short at a sentence or line boundary
PrevShortened == Len(chunk) < chunk_size /\ end < Len(text)

\* C1: a text no longer than chunk_size comes back as exactly one chunk,
\* and that chunk is the text with leading and trailing whitespace trimmed.
C1_ShortTextOneTrimmedChunk ==
    (ct_pc = "done" /\ Len(text) <= chunk_size) => chunks = <<strip(text)>>

\* C2: in every window that stops short of the end of the text, first or
\* later, a last '.' or line break lying after the window's own midpoint
\* truncates the chunk just after it and moves the scan on from the break;
\* otherwise the hard cut at chunk_size stands.
C2_SnapInEveryWindow ==
    [][(LoopPass /\ start + chunk_size < Len(text)) =>
          LET window == PySlice(text, start, start + chunk_size)
              bp == BreakPoint(text, chunk_size, start)
          IN  IF bp > chunk_size \div 2
              THEN /\ chunk' = PySlice(window, 0, bp + 1)
                   /\ end' = start + bp + 1
                   /\ start' = start + bp + 1 - overlap
              ELSE /\ chunk' = window
                   /\ end' = start + chunk_size
                   /\ start' = start + chunk_size - overlap]_vars

\* C3: for a text longer than chunk_size, whenever the earlier of two
\* consecutive chunks was not shortened by boundary snapping, the last
\* `overlap` characters of the earlier returned chunk are the first
\* `overlap` characters of the later one, and no returned chunk is longer
\* than chunk_size.
C3_OverlapAndLength ==
    [][LoopPass =>
          /\ \A i \in 1..Len(chunks') : Len(chunks'[i]) <= chunk_size
          /\ (Len(chunks) >= 1 /\ ~PrevShortened) =>
                /\ Len(Last(chunks)) >= overlap
                /\ Len(Last(chunks')) >= overlap
                /\ Tail_n(Last(chunks), overlap) = Head_n(Last(chunks'), overlap)]_vars

\* C17: with 0 <= overlap < chunk_size every pass of the loop, hard-cut or
\* boundary-snapped, moves the scan position strictly forward and never
\* makes it negative, so the loop ends.
C17_ScanMovesForward ==
    [][(LoopPass /\ 0 <= overlap /\ overlap < chunk_size) =>
          /\ start' > start
          /\ start' >= 0]_vars

(***************************************************************************)
(* chunk_text as a function of its arguments, for its callers.             *)
(***************************************************************************)
DefaultChunkSize == 1000
DefaultOverlap == 200

RECURSIVE ChunkLoop(_, _, _, _)
ChunkLoop(t, size, ov, st) ==
    IF st >= Len(t) THEN <<>>
    ELSE LET it == ChunkIter(t, size, ov, st)
         IN  <<strip(it.chunk)>> \o ChunkLoop(t, size, ov, it.start)

chunk_text(t, size, ov) ==
    IF Len(t) <= size THEN <<t>> ELSE ChunkLoop(t, size, ov, 0)

(***************************************************************************)
(* The file system seen by extract_text_from_file.                         *)
(***************************************************************************)
None == "None"

Rep(c, n) == SubSeq([i \in 1..n |-> c], 1, n)

P1 == [dir |-> "d1", stem |-> "a", ext |-> ".txt"]
P2 == [dir |-> "d2", stem |-> "a", ext |-> ".txt"]
P3 == [dir |-> "d1", stem |-> "b", ext |-> ".md"]
Paths == {P1, P2, P3}
WritablePaths == {P1}

\* file contents: a short text, a blank file, and a text of three windows
\* whose middle window holds only spaces
T_short == <<" ", "a", "b", "\n">>
T_blank == <<" ", "\n">>
T_gap == <<"a">> \o Rep(" ", 1800) \o <<"b">>
Contents == {T_short, T_blank, T_gap}
File(c) == [present |-> TRUE, data |-> c]
Missing == [present |-> FALSE, data |-> <<>>]
FileStates == {File(c) : c \in Contents} \cup {Missing}

\* chunk_text(text) with the default arguments, tabulated once for the
\* texts the file system can hold (the function is pure)
DefaultChunks == [t \in {strip(c) : c \in Contents} |->
                    chunk_text(t, DefaultChunkSize, DefaultOverlap)]
chunk_text_default(t) ==
    IF t \in DOMAIN DefaultChunks THEN DefaultChunks[t]
    ELSE chunk_text(t, DefaultChunkSize, DefaultOverlap)

basename(p) == p.stem \o p.ext
splitext_lower(p) ==
    CASE p.ext = ".TXT" -> ".txt"
      [] p.ext = ".PDF" -> ".pdf"
      [] OTHER -> p.ext

\* lines 92-120: the stripped text of the file, or a raised exception
extract_text_from_file(p, fs) ==
    IF splitext_lower(p) \notin {".pdf", ".txt", ".docx"} THEN [ok |-> FALSE, text |-> <<>>]
    ELSE IF ~fs[p].present THEN [ok |-> FALSE, text |-> <<>>]
    ELSE [ok |-> TRUE, text |-> strip(fs[p].data)]

(***************************************************************************)
(* The vector store: a list of entries keyed by id.                        *)
(***************************************************************************)
HasId(coll, id) == \E i \in 1..Len(coll) : coll[i].id = id

\* a store that adds where it should replace
UpsertOne_add(coll, d) == Append(coll, d)

UpsertOne(coll, d) ==
    IF HasId(coll, d.id)
    THEN [i \in 1..Len(coll) |-> IF coll[i].id = d.id THEN d ELSE coll[i]]
    ELSE Append(coll, d)

RECURSIVE upsert(_, _)
upsert(coll, docs) ==
    IF docs = <<>> THEN coll
    ELSE upsert(UpsertOne(coll, Head(docs)), Tail(docs))

(***************************************************************************)
(* ingest_uploaded_documents (db_setup.py 151-198).                        *)
(***************************************************************************)
uuid4(n) == "uuid" \o ToString(n)
BaseIds == {"B1"}

DocId(base, p, i) == base \o "_" \o basename(p) \o "_" \o ToString(i)

\* lines 169-184: the records of one file
DocsOfFile(base, p, cs) ==
    [k \in 1..Len(cs) |->
        [id |-> DocId(base, p, k - 1),
         text |-> cs[k],
         metadata |-> [source |-> basename(p),
                       chunk_index |-> k - 1,
                       total_chunks |-> Len(cs),
                       file_type |-> splitext_lower(p)]]]

\* a loop that a failing file ends instead of skipping the file
RECURSIVE BuildDocs_abort(_, _, _)
BuildDocs_abort(paths, base, fs) ==
    IF paths = <<>> THEN <<>>
    ELSE LET p == Head(paths)
             r == extract_text_from_file(p, fs)
         IN  IF ~r.ok THEN <<>>
             ELSE (IF strip(r.text) = <<>> THEN <<>> ELSE DocsOfFile(base, p, chunk_text_default(r.text)))
                      \o BuildDocs_abort(Tail(paths), base, fs)

\* lines 161-188: the loop over the batch; a file that fails to extract or
\* whose text is blank adds nothing
RECURSIVE BuildDocs(_, _, _)
BuildDocs(paths, base, fs) ==
    IF paths = <<>> THEN <<>>
    ELSE LET p == Head(paths)
             r == extract_text_from_file(p, fs)
             mine == IF ~r.ok THEN <<>>
                     ELSE IF strip(r.text) = <<>> THEN <<>>
                     ELSE DocsOfFile(base, p, chunk_text_default(r.text))
         IN  mine \o BuildDocs(Tail(paths), base, fs)

\* the positions of a caller between two calls on the store
IngestReady == {"idle", "returned", "sampled", "rebuilt"}

\* lines 45-78: the fixed sample corpus (each text held as one token)
load_sample_documents ==
    << [id |-> "doc_1",
        text |-> <<"This repository demonstrates a local Retrieval-Augmented Generation (RAG) pipeline. It uses ChromaDB for vector storage and Ollama for local LLM inference.">>,
        metadata |-> [source |-> "README", topic |-> "project"]],
       [id |-> "doc_2",
        text |-> <<"The Retriever Agent queries ChromaDB to fetch semantically relevant passages based on the user question.">>,
        metadata |-> [source |-> "design", topic |-> "retriever"]],
       [id |-> "doc_3",
        text |-> <<"The Reasoner Agent analyzes the retrieved passages, filters noise, and synthesizes the key facts needed to answer.">>,
        metadata |-> [source |-> "design", topic |-> "reasoner"]],
       [id |-> "doc_4",
        text |-> <<"The Responder Agent crafts a concise, user-friendly answer grounded in the reasoned context.">>,
        metadata |-> [source |-> "design", topic |-> "responder"]] >>

SampleIds == {load_sample_documents[k].id : k \in 1..Len(load_sample_documents)}
IsUploaded(e) == e.id \notin SampleIds
\* the entries of the store that came from uploads
Uploaded(coll) == SelectSeq(coll, IsUploaded)

\* batches of up to MaxFiles paths, each path listed once
PathLists ==
    {l \in UNION {[1..n -> Paths] : n \in 0..MaxFiles} :
        \A i \in 1..Len(l) : \A j \in 1..Len(l) : l[i] = l[j] => i = j}

IngestInit ==
    /\ files = [p \in Paths |-> File(T_short)]
    /\ collection = <<>>
    /\ uuid_ctr = 0
    /\ file_paths = <<>> /\ base_doc_id = None /\ texts = <<>>
    /\ all_docs = <<>> /\ doc_count = 0 /\ upsert_calls = 0 /\ ing_pc = "idle"
    /\ repeated = FALSE

\* the environment replaces or removes a file
WriteFile ==
    /\ ing_pc \in IngestReady
    /\ \E p \in WritablePaths, f \in FileStates :
          /\ files[p] # f
          /\ files' = [files EXCEPT ![p] = f]
    /\ UNCHANGED <<collection, uuid_ctr, call_vars>>

ingest_uploaded_documents(paths, arg) ==
    LET base == IF arg = None THEN uuid4(uuid_ctr) ELSE arg
    IN  /\ arg = None => uuid_ctr < MaxUuid
        /\ uuid_ctr' = IF arg = None THEN uuid_ctr + 1 ELSE uuid_ctr
        /\ file_paths' = paths
        /\ base_doc_id' = base
        /\ texts' = [k \in 1..Len(paths) |-> extract_text_from_file(paths[k], files)]
        /\ all_docs' = BuildDocs(paths, base, files)
        /\ doc_count' = Len(all_docs')
        /\ upsert_calls' = IF all_docs' # <<>> THEN 1 ELSE 0
        /\ collection' = IF all_docs' # <<>> THEN upsert(collection, all_docs') ELSE collection
        /\ Len(Uploaded(collection')) <= MaxEntries
        /\ repeated' = (/\ ing_pc = "returned" /\ file_paths' = file_paths
                         /\ base_doc_id' = base_doc_id /\ texts' = texts)
        /\ ing_pc' = "returned"
        /\ UNCHANGED files

Ingest ==
    /\ ing_pc \in IngestReady
    /\ \E paths \in PathLists, arg \in BaseIds \cup {None} :
          ingest_uploaded_documents(paths, arg)

IngestNext ==
    /\ \/ WriteFile
       \/ Ingest
    /\ UNCHANGED <<ct_vars, sq_vars, app_vars>>

InitIngest == ChunkIdle /\ SplitIdle /\ IngestInit /\ AppIdle
SpecIngest == InitIngest /\ [][IngestNext]_vars

(***************************************************************************)
(* Claims about ingest_uploaded_documents (checked under SpecIngest).      *)
(***************************************************************************)
\* a call of ingest_uploaded_documents returns in this step
IngestCall == files' = files /\ ing_pc' = "returned"

NoDupIds(docs) ==
    \A i \in 1..Len(docs) : \A j \in 1..Len(docs) : docs[i].id = docs[j].id => i = j

Entries(docs) == {docs[k] : k \in 1..Len(docs)}

\* the ids a batch with this base id can give to its chunks
BatchIds(base) == {DocId(base, p, i) : p \in Paths, i \in 0..(MaxEntries + 1)}

\* the paths of the batch whose extraction succeeded, in batch order
RECURSIVE GoodPaths(_, _)
GoodPaths(paths, tx) ==
    IF paths = <<>> THEN <<>>
    ELSE (IF Head(tx).ok THEN <<Head(paths)>> ELSE <<>>) \o GoodPaths(Tail(paths), Tail(tx))

\* C4: every record handed to the store's upsert has a trimmed, non-empty
\* text; empty chunks are never indexed.
C4_IndexedChunksNonEmpty ==
    (ing_pc = "returned" /\ upsert_calls = 1) =>
        \A k \in 1..Len(all_docs) :
            /\ all_docs[k].text # <<>>
            /\ strip(all_docs[k].text) = all_docs[k].text

\* C5: ingesting the same batch (same base id, same names, same extracted
\* text) a second time leaves the store exactly as the first call left it,
\* and the store holds no id twice.
C5_IngestIdempotent ==
    [][(IngestCall /\ repeated') =>
          /\ collection' = collection
          /\ NoDupIds(collection')
          /\ doc_count' = doc_count]_vars

C5_Witness ==
    /\ ing_pc = "returned" /\ repeated
    /\ upsert_calls = 1 /\ Len(all_docs) >= 2 /\ NoDupIds(all_docs)
    /\ Entries(collection) = Entries(all_docs)

\* C6: ingesting a batch again under the same base id and the same source
\* names leaves, among the store's entries of that batch, exactly the chunks
\* of the new text and none of the old.
C6_ReingestOverwritesBatch ==
    [][(IngestCall /\ ing_pc = "returned"
          /\ file_paths' = file_paths /\ base_doc_id' = base_doc_id) =>
          {e \in Entries(collection') : e.id \in BatchIds(base_doc_id')}
              = Entries(all_docs')]_vars

\* C7: no two records built for one batch share an id, so every chunk of
\* every file of the batch is in the store after the call.
C7_BatchIdsUnique ==
    ing_pc = "returned" =>
        /\ NoDupIds(all_docs)
        /\ upsert_calls = 1 => Entries(all_docs) \subseteq Entries(collection)

\* C8: a file whose extraction fails adds no record and does not keep the
\* other files of the batch from being chunked, counted and upserted; when
\* every file fails the call returns 0 and never calls upsert.
C8_FailureContained ==
    [][IngestCall =>
          LET good == GoodPaths(file_paths', texts')
          IN  /\ all_docs' = BuildDocs(good, base_doc_id', files')
              /\ doc_count' = Len(all_docs')
              /\ \A k \in 1..Len(all_docs') : HasId(collection', all_docs'[k].id)
              /\ good = <<>> =>
                    /\ doc_count' = 0
                    /\ upsert_calls' = 0
                    /\ collection' = collection]_vars

C8_Witness ==
    /\ ing_pc = "returned"
    /\ \E k \in 1..Len(texts) : ~texts[k].ok /\ k < Len(texts)
    /\ \E k \in 1..Len(texts) : texts[k].ok
    /\ doc_count > 0 /\ upsert_calls = 1
    /\ Entries(all_docs) \subseteq Entries(collection)

(***************************************************************************)
(* ingest_documents and the rebuild flag (db_setup.py 31-42, 81-89).       *)
(***************************************************************************)
\* a store handle that keeps the old collection when asked to rebuild
get_or_create_collection_keep(coll, rebuild) == coll

\* lines 31-42: delete_collection (a missing collection is ignored), then
\* get_or_create_collection
get_or_create_collection(coll, rebuild) == IF rebuild THEN <<>> ELSE coll

\* lines 81-89
ingest_documents(rebuild) ==
    LET docs == load_sample_documents
    IN  /\ collection' = upsert(get_or_create_collection(collection, rebuild), docs)
        /\ doc_count' = Len(docs)
        /\ ing_pc' = IF rebuild THEN "rebuilt" ELSE "sampled"
        /\ repeated' = FALSE
        /\ UNCHANGED <<files, uuid_ctr, file_paths, base_doc_id, texts, all_docs,
                       upsert_calls>>

IngestDocuments ==
    /\ ing_pc \in IngestReady
    /\ \E rebuild \in BOOLEAN : ingest_documents(rebuild)

RebuildNext ==
    /\ \/ Ingest
       \/ IngestDocuments
    /\ UNCHANGED <<ct_vars, sq_vars, app_vars>>

InitRebuild == ChunkIdle /\ SplitIdle /\ IngestInit /\ AppIdle
SpecRebuild == InitRebuild /\ [][RebuildNext]_vars

\* C16: after ingest_documents(rebuild=True) the collection holds exactly
\* the fixed sample documents, whatever was ingested before; after
\* ingest_documents(rebuild=False) every entry with another id is as it was.
C16_RebuildIsFullReindex ==
    [][/\ ing_pc' = "rebuilt" => collection' = load_sample_documents
       /\ ing_pc' = "sampled" =>
             /\ Uploaded(collection') = Uploaded(collection)
             /\ \A k \in 1..Len(load_sample_documents) :
                    \E j \in 1..Len(collection') :
                        collection'[j] = load_sample_documents[k]]_vars

\* a rebuild after an upload whose chunks had been upserted
C16_Witness ==
    /\ ing_pc = "rebuilt"
    /\ upsert_calls = 1 /\ all_docs # <<>>
    /\ \A k \in 1..Len(all_docs) : ~HasId(collection, all_docs[k].id)
    /\ Len(collection) = Len(load_sample_documents)

(***************************************************************************)
(* split_user_questions (streamlit_app.py 43-74).                          *)
(***************************************************************************)
Markers == {")", ".", "-", " "}

\* text.splitlines(): the pieces between line breaks
RECURSIVE splitlines(_)
splitlines(t) ==
    IF t = <<>> THEN <<>>
    ELSE IF \A i \in 1..Len(t) : t[i] \notin LineBreaks THEN <<t>>
    ELSE LET k == CHOOSE i \in 1..Len(t) :
                     t[i] \in LineBreaks /\ \A j \in 1..(i - 1) : t[j] \notin LineBreaks
         IN  <<SubSeq(t, 1, k - 1)>> \o splitlines(SubSeq(t, k + 1, Len(t)))

\* line 52: the trimmed non-blank lines
RECURSIVE StripNonBlank(_)
StripNonBlank(ls) ==
    IF ls = <<>> THEN <<>>
    ELSE (IF strip(Head(ls)) # <<>> THEN <<strip(Head(ls))>> ELSE <<>>)
             \o StripNonBlank(Tail(ls))

\* line 56: the test for a numbered line
IsNumberedLine(ln) ==
    /\ Len(ln) > 2
    /\ isdigit(ln[1])
    /\ \/ ln[2] \in {".", ")"}
       \/ ln[2] = " " /\ ln[3] \in {"-", "."}

\* lines 64-68: the 0-based index past the leading characters of s that are in S
RECURSIVE SkipWhile(_, _, _)
SkipWhile(s, idx, S) ==
    IF idx < Len(s) /\ s[idx + 1] \in S THEN SkipWhile(s, idx + 1, S) ELSE idx

\* lines 58-69
Cleaned(ln) ==
    LET afterDigits == SkipWhile(ln, 0, Digits)
        afterMarkers == SkipWhile(ln, afterDigits, Markers)
    IN  strip(PySlice(ln, afterMarkers, Len(ln)))

\* a loop body that appends the remainder without testing it
SplitLine_keepEmpty(ln) ==
    IF IsNumberedLine(ln) THEN <<Cleaned(ln)>> ELSE <<ln>>

\* lines 54-73: what one line adds to the result
SplitLine(ln) ==
    IF IsNumberedLine(ln)
    THEN (IF Cleaned(ln) # <<>> THEN <<Cleaned(ln)>> ELSE <<>>)
    ELSE <<ln>>

RECURSIVE SplitLoop(_)
SplitLoop(ls) ==
    IF ls = <<>> THEN <<>> ELSE SplitLine(Head(ls)) \o SplitLoop(Tail(ls))

split_user_questions(t) ==
    IF t = <<>> THEN <<>> ELSE SplitLoop(StripNonBlank(splitlines(t)))

(***************************************************************************)
(* The inputs of the splitter: every short text over an alphabet with a    *)
(* digit, a letter, the four markers and a line break, and every short     *)
(* numbered list "1. <body>", "2. <body>", ...                             *)
(***************************************************************************)
QuestionAlphabet == {"1", "a", ".", ")", "-", " ", "\n"}
BodyAlphabet == {"a", "-", " "}
Bodies == SeqsUpTo(BodyAlphabet, MaxBodyLen)

NumberedLineOf(i, body) == <<ToString(i), ".", " ">> \o body

RECURSIVE JoinLines(_)
JoinLines(ls) ==
    IF Len(ls) = 0 THEN <<>>
    ELSE IF Len(ls) = 1 THEN ls[1]
    ELSE ls[1] \o <<"\n">> \o JoinLines(Tail(ls))

NumberedList(bs) == JoinLines([i \in 1..Len(bs) |-> NumberedLineOf(i, bs[i])])

BodyLists == UNION {[1..n -> Bodies] : n \in 1..MaxLines}

QuestionInputs ==
    SeqsUpTo(QuestionAlphabet, MaxQuestionLen) \cup {NumberedList(bs) : bs \in BodyLists}

SplitInit ==
    /\ question \in QuestionInputs
    /\ numbered = <<>>
    /\ sq_pc = "entry"

\* lines 50-51
SplitEmpty ==
    /\ sq_pc = "entry"
    /\ question = <<>>
    /\ numbered' = <<>>
    /\ sq_pc' = "done"
    /\ UNCHANGED question

\* lines 52-74
Split ==
    /\ sq_pc = "entry"
    /\ question # <<>>
    /\ numbered' = split_user_questions(question)
    /\ sq_pc' = "done"
    /\ UNCHANGED question

SplitNext ==
    /\ \/ SplitEmpty
       \/ Split
    /\ UNCHANGED <<ct_vars, ing_vars, app_vars>>

InitSplit == ChunkIdle /\ SplitInit /\ IngestIdle /\ AppIdle
SpecSplit == InitSplit /\ [][SplitNext]_vars

(***************************************************************************)
(* Claims about split_user_questions (checked under SpecSplit).            *)
(***************************************************************************)
\* the trimmed non-blank lines of the input
InputLines == StripNonBlank(splitlines(question))

\* a line that starts with one or more digits immediately followed by one
\* of the four markers
StartsWithNumbering(ln) ==
    LET d == SkipWhile(ln, 0, Digits)
    IN  d >= 1 /\ d < Len(ln) /\ ln[d + 1] \in Markers

\* what the lines yield when numbering is detected by that rule; a line
\* that is nothing but numbering is left to the code
RECURSIVE StripNumbering(_)
StripNumbering(ls) ==
    IF ls = <<>> THEN <<>>
    ELSE (IF StartsWithNumbering(Head(ls)) /\ Cleaned(Head(ls)) # <<>>
          THEN <<Cleaned(Head(ls))>>
          ELSE IF StartsWithNumbering(Head(ls)) THEN SplitLine(Head(ls))
          ELSE <<Head(ls)>>) \o StripNumbering(Tail(ls))

\* C9: every line that starts with digits immediately followed by ')', '.',
\* '-' or a space, whatever the number of digits and whichever the marker,
\* yields the remainder after its digits and markers; every other line is
\* kept verbatim.
C9_NumberingDetected ==
    sq_pc = "done" => numbered = StripNumbering(InputLines)

\* the input is a list of lines "<digit>. <body>"
IsDigitDotList ==
    /\ question # <<>>
    /\ \A i \in 1..Len(question) : question[i] \notin (LineBreaks \ {"\n"})
    /\ question[Len(question)] # "\n"
    /\ LET ls == splitlines(question)
       IN  \A k \in 1..Len(ls) :
              /\ Len(ls[k]) >= 3
              /\ isdigit(ls[k][1]) /\ ls[k][2] = "." /\ ls[k][3] = " "

BodiesOfList ==
    LET ls == splitlines(question)
    IN  [k \in 1..Len(ls) |-> strip(SubSeq(ls[k], 4, Len(ls[k])))]

NoBlankBody == \A k \in 1..Len(BodiesOfList) : BodiesOfList[k] # <<>>

\* the input is one non-blank line without numbering
IsSingleUnnumberedLine ==
    /\ \A i \in 1..Len(question) : question[i] \notin LineBreaks
    /\ strip(question) # <<>>
    /\ ~StartsWithNumbering(strip(question))

IsSuffix(x, ln) ==
    Len(x) <= Len(ln) /\ SubSeq(ln, Len(ln) - Len(x) + 1, Len(ln)) = x

\* res takes its elements, in order, from the ends of distinct lines of ls
RECURSIVE InLineOrder(_, _)
InLineOrder(res, ls) ==
    IF res = <<>> THEN TRUE
    ELSE IF ls = <<>> THEN FALSE
    ELSE \/ IsSuffix(Head(res), Head(ls)) /\ InLineOrder(Tail(res), Tail(ls))
         \/ InLineOrder(res, Tail(ls))

NonEmptyTrimmedInOrder ==
    /\ \A k \in 1..Len(numbered) :
          numbered[k] # <<>> /\ strip(numbered[k]) = numbered[k]
    /\ InLineOrder(numbered, InputLines)

\* C10 as stated: [] for the empty string, the trimmed line for a single
\* unnumbered line, the (trimmed, non-blank) bodies in input order for a
\* list of lines "<digit>. <body>"; every sub-question non-empty and
\* trimmed, in the order of the input lines.
C10_AsStated ==
    sq_pc = "done" =>
        /\ question = <<>> => numbered = <<>>
        /\ IsSingleUnnumberedLine => numbered = <<strip(question)>>
        /\ (IsDigitDotList /\ NoBlankBody) => numbered = BodiesOfList
        /\ NonEmptyTrimmedInOrder

\* no body starts with a marker character
NoBodyStartsWithMarker ==
    \A k \in 1..Len(BodiesOfList) : BodiesOfList[k][1] \notin Markers

\* C10 as amended: as C10, with the list case limited to bodies that do not
\* start with ')', '.' or '-'.
C10_SplitterResults ==
    sq_pc = "done" =>
        /\ question = <<>> => numbered = <<>>
        /\ IsSingleUnnumberedLine => numbered = <<strip(question)>>
        /\ (IsDigitDotList /\ NoBlankBody /\ NoBodyStartsWithMarker) =>
              numbered = BodiesOfList
        /\ NonEmptyTrimmedInOrder

C10_Witness ==
    /\ sq_pc = "done"
    /\ IsDigitDotList /\ NoBlankBody /\ NoBodyStartsWithMarker
    /\ Len(numbered) = 2 /\ numbered[1] # numbered[2]
    /\ numbered = BodiesOfList

(***************************************************************************)
(* The chat application (streamlit_app.py).  A text is a sequence of       *)
(* tokens: a token is one character, or a string that the program treats   *)
(* as opaque (a stage's output, a fixed piece of markup).  Chat titles,    *)
(* timestamps and the sidebar's collapsed flag are left out.               *)
(***************************************************************************)
MaxChats == 2
MaxMessages == 2

RECURSIVE Cat(_)
\* the tokens of a text run together into one string
Cat(t) == IF t = <<>> THEN "" ELSE Head(t) \o Cat(Tail(t))

RECURSIVE JoinWith(_, _)
\* sep.join(parts)
JoinWith(parts, sep) ==
    IF parts = <<>> THEN <<>>
    ELSE IF Len(parts) = 1 THEN parts[1]
    ELSE parts[1] \o sep \o JoinWith(Tail(parts), sep)

\* agents/retriever.py 23-31, agents/reasoner.py 9-38, agents/responder.py
\* 8-43: the stages; what the store and the models return is opaque, so each
\* output is one token that names the stage and the arguments it was given
retrieve(q, top_k) == <<"passages(" \o Cat(q) \o ")">>
reason(q, passages, max_tokens) == <<"notes(" \o Cat(q) \o "|" \o Cat(passages) \o ")">>
respond(q, reasoning_summary, max_tokens) ==
    <<"answer(" \o Cat(q) \o "|" \o Cat(reasoning_summary) \o ")">>

\* lines 184-187
formatting_note ==
    <<"\n\nFormatting requirements: Provide a precise, accurate answer in well-aligned markdown. Keep it to <= 8 bullet points, use short headings if needed, avoid redundancy, and keep it crisp.">>

(***************************************************************************)
(* The chats of the session: st.session_state.chats is a dict, kept here   *)
(* as the list of its values in insertion order.                           *)
(***************************************************************************)
Session == [chats |-> chats, current |-> current_chat_id, ctr |-> chat_ctr]
ChatIds(cs) == {cs[k].id : k \in 1..Len(cs)}
ChatIndex(cs, id) == CHOOSE k \in 1..Len(cs) : cs[k].id = id

\* lines 77-88
create_new_chat(s) ==
    LET chat_id == "chat" \o ToString(s.ctr)
    IN  [chats |-> Append(s.chats, [id |-> chat_id, messages |-> <<>>]),
         current |-> chat_id,
         ctr |-> s.ctr + 1]

\* lines 111-113
switch_to_chat(s, chat_id) == [s EXCEPT !.current = chat_id]

Without(cs, chat_id) == SelectSeq(cs, LAMBDA c : c.id # chat_id)

\* a delete that leaves current_chat_id as it was
delete_chat_forget(s, chat_id) == [s EXCEPT !.chats = Without(s.chats, chat_id)]

\* lines 116-125
delete_chat(s, chat_id) ==
    IF chat_id \notin ChatIds(s.chats) THEN s
    ELSE LET rest == Without(s.chats, chat_id)
         IN  IF s.current # chat_id THEN [s EXCEPT !.chats = rest]
             ELSE IF rest # <<>> THEN [s EXCEPT !.chats = rest, !.current = rest[1].id]
             ELSE create_new_chat([s EXCEPT !.chats = rest])

\* lines 408-410: every script run starts by making sure a chat exists
EnsureChat(s) == IF s.chats = <<>> THEN create_new_chat(s) ELSE s

SetSession(s) ==
    /\ chats' = s.chats
    /\ current_chat_id' = s.current
    /\ chat_ctr' = s.ctr
    /\ chat_ctr' <= MaxChats

\* line 416
HasCurrentChat(s) == s.current # "None" /\ s.current \in ChatIds(s.chats)

AppendMessages(cs, chat_id, msgs) ==
    [k \in 1..Len(cs) |->
        IF cs[k].id = chat_id THEN [cs[k] EXCEPT !.messages = cs[k].messages \o msgs]
        ELSE cs[k]]

RECURSIVE TotalMessages(_)
TotalMessages(cs) ==
    IF cs = <<>> THEN 0 ELSE Len(Head(cs).messages) + TotalMessages(Tail(cs))

(***************************************************************************)
(* Script runs of main (streamlit_app.py 328-504): one run per click.      *)
(***************************************************************************)
\* lines 15-26; the collection may or may not have been persisted earlier
AppInit ==
    /\ chats = <<>> /\ current_chat_id = "None" /\ db_initialized = FALSE
    /\ agents = "None" /\ chat_ctr = 0
    /\ coll_exists \in BOOLEAN /\ upserted = FALSE
    /\ ui_question = <<>> /\ sub_questions = <<>> /\ sub_idx = 0
    /\ retrieved = <<>> /\ reasoned = <<>> /\ combined_markdown = <<>>
    /\ app_pc = "fresh" /\ calls = <<>> /\ outcome = "none"

\* a run that handles no question leaves no pipeline locals behind
NoQuestion ==
    /\ ui_question' = <<>> /\ sub_questions' = <<>> /\ sub_idx' = 0
    /\ retrieved' = <<>> /\ reasoned' = <<>> /\ combined_markdown' = <<>>

\* the first run of the script: lines 406-410
FirstRun ==
    /\ app_pc = "fresh"
    /\ SetSession(EnsureChat(Session))
    /\ app_pc' = "idle"
    /\ UNCHANGED <<db_initialized, agents, coll_exists, upserted, run_vars, calls, outcome>>

\* lines 221-223
NewChat ==
    /\ app_pc = "idle"
    /\ SetSession(create_new_chat(EnsureChat(Session)))
    /\ NoQuestion /\ calls' = <<>> /\ outcome' = "none"
    /\ UNCHANGED <<db_initialized, agents, coll_exists, upserted, app_pc>>

\* lines 229-243: the button of a listed chat
SwitchChat ==
    /\ app_pc = "idle"
    /\ \E chat_id \in ChatIds(EnsureChat(Session).chats) :
          /\ chat_id # current_chat_id
          /\ SetSession(switch_to_chat(EnsureChat(Session), chat_id))
    /\ NoQuestion /\ calls' = <<>> /\ outcome' = "none"
    /\ UNCHANGED <<db_initialized, agents, coll_exists, upserted, app_pc>>

\* lines 245-248: the delete button of a listed chat
DeleteChat ==
    /\ app_pc = "idle"
    /\ \E chat_id \in ChatIds(EnsureChat(Session).chats) :
          SetSession(delete_chat(EnsureChat(Session), chat_id))
    /\ NoQuestion /\ calls' = <<>> /\ outcome' = "none"
    /\ UNCHANGED <<db_initialized, agents, coll_exists, upserted, app_pc>>

\* lines 446-449
ClearChat ==
    /\ app_pc = "idle"
    /\ LET s == EnsureChat(Session)
       IN  /\ HasCurrentChat(s)
           /\ SetSession([s EXCEPT !.chats[ChatIndex(s.chats, s.current)].messages = <<>>])
    /\ NoQuestion /\ calls' = <<>> /\ outcome' = "none"
    /\ UNCHANGED <<db_initialized, agents, coll_exists, upserted, app_pc>>

(***************************************************************************)
(* The Ingest Documents button (lines 262-278) and process_uploaded_files  *)
(* (lines 128-167).                                                        *)
(***************************************************************************)
\* the uploader's files: one with text, one that holds only whitespace
U_text == [stem |-> "a", ext |-> ".txt", data |-> T_short]
U_blank == [stem |-> "e", ext |-> ".txt", data |-> T_blank]
UploadLists == {<<>>, <<U_text>>, <<U_blank>>, <<U_blank, U_text>>}

Call(stage, q, input, ok) == [stage |-> stage, question |-> q, input |-> input, ok |-> ok]
StoreCall(op, ok) == Call("store." \o op, <<>>, <<>>, ok)
Stages == {"retrieve", "reason", "respond"}

\* lines 144-146: the temporary copy of the k-th uploaded file
TempPath(u, k) == [dir |-> "tmp", stem |-> "tmp" \o ToString(k) \o "_" \o u.stem, ext |-> u.ext]

\* lines 150-151 with db_setup.py 161-188: the records built for that copy
DocsOfUpload(u, k) ==
    LET p == TempPath(u, k)
    IN  BuildDocs(<<p>>, uuid4(k), [x \in {p} |-> File(u.data)])

\* db_setup.py 201-206, reached from line 135; the upsert of the samples
\* raises when the embedding service is down (service_up = FALSE)
ensure_db_initialized(exists, service_up) ==
    IF exists
    THEN [raised |-> FALSE, upserted |-> FALSE, calls |-> <<StoreCall("get_collection", TRUE)>>]
    ELSE [raised |-> ~service_up, upserted |-> service_up,
          calls |-> <<StoreCall("get_collection", FALSE),
                      StoreCall("get_or_create_collection", TRUE),
                      StoreCall("upsert", service_up)>>]

\* lines 148-161 for one file: it is counted unless the ingest raised, and
\* the ingest raises only from the upsert of a non-empty list of records
UploadResult(docs, rest, service_up) ==
    [count |-> (IF docs # <<>> /\ ~service_up THEN 0 ELSE 1) + rest.count,
     upserted |-> (docs # <<>> /\ service_up) \/ rest.upserted,
     calls |-> <<StoreCall("get_or_create_collection", TRUE)>>
                 \o (IF docs # <<>> THEN <<StoreCall("upsert", service_up)>> ELSE <<>>)
                 \o rest.calls]

RECURSIVE IngestUploads(_, _, _)
\* lines 142-165: the loop over the uploaded files, from the k-th on
IngestUploads(up, k, service_up) ==
    IF k > Len(up) THEN [count |-> 0, upserted |-> FALSE, calls |-> <<>>]
    ELSE UploadResult(DocsOfUpload(up[k], k), IngestUploads(up, k + 1, service_up),
                      service_up)

\* lines 133-167, given the outcome e of ensure_db_initialized and the
\* outcome r of the loop
Processed(e, r) ==
    IF e.raised
    THEN [count |-> 0, upserted |-> FALSE, exists |-> TRUE, calls |-> e.calls]
    ELSE [count |-> r.count, upserted |-> e.upserted \/ r.upserted,
          exists |-> TRUE, calls |-> e.calls \o r.calls]

\* lines 128-167
process_uploaded_files(up, exists, service_up) ==
    IF up = <<>> THEN [count |-> 0, upserted |-> FALSE, exists |-> exists, calls |-> <<>>]
    ELSE Processed(ensure_db_initialized(exists, service_up),
                   IngestUploads(up, 1, service_up))

\* lines 271-278, given the outcome r of process_uploaded_files
IngestOutcome(up, r) ==
    /\ db_initialized' = (db_initialized \/ (up # <<>> /\ r.count > 0))
    /\ coll_exists' = r.exists
    /\ upserted' = (upserted \/ r.upserted)
    /\ calls' = r.calls
    /\ outcome' = IF up = <<>> THEN "no files"
                  ELSE IF r.count > 0 THEN "ingested" ELSE "none"

\* lines 270-278
IngestClick ==
    /\ app_pc = "idle"
    /\ SetSession(EnsureChat(Session))
    /\ \E up \in UploadLists, service_up \in BOOLEAN :
          IngestOutcome(up, process_uploaded_files(up, coll_exists, service_up))
    /\ NoQuestion
    /\ UNCHANGED <<agents, app_pc>>

(***************************************************************************)
(* The Send button (lines 443, 452-493) and run_rag_pipeline (170-207),    *)
(* one step per stage call.                                                *)
(***************************************************************************)
\* what the text area can hold: blank, one line, one numbered line, a
\* numbered line with nothing but a marker, and a list of two
Q_blank == <<" ">>
Q_line == <<"a">>
Q_numbered == <<"1", ".", " ", "a">>
Q_marker == <<"1", ".", " ", ".">>
Q_list == <<"1", ".", " ", "a", "\n", "2", ".", " ", "b">>
UiQuestions == {Q_blank, Q_line, Q_numbered, Q_marker, Q_list}

UserMessage(content) == [role |-> "user", content |-> content]
AssistantMessage(content) == [role |-> "assistant", content |-> content]

\* line 475
NumberedQuestions(qs) == NumberedList(qs)
\* line 472 (without the heading's emoji)
MergedHeading == <<"### Answers (Multiple Questions)">>
\* line 479
QuestionHeading(i, q) == <<"\n", "### Q", ToString(i), ": ">> \o q
\* line 483
Merged(parts) == JoinWith(parts, <<"\n", "\n">>)

\* a loop that runs every pass on the first sub-question
PipelineQuestion_first == IF Len(sub_questions) <= 1 THEN ui_question ELSE sub_questions[1]

\* the question the pipeline is run on: line 460, or line 478
PipelineQuestion == IF Len(sub_questions) <= 1 THEN ui_question ELSE sub_questions[sub_idx]

\* lines 452-459 and 470-476
SendClick ==
    /\ app_pc = "idle"
    /\ current_chat_id' = EnsureChat(Session).current
    /\ chat_ctr' = EnsureChat(Session).ctr
    /\ chat_ctr' <= MaxChats
    /\ \E q \in UiQuestions :
          LET s == EnsureChat(Session)
              subs == split_user_questions(q)
          IN  /\ HasCurrentChat(s)
              /\ strip(q) # <<>>
              /\ TotalMessages(s.chats) < MaxMessages
              /\ ui_question' = q
              /\ calls' = <<>>
              /\ retrieved' = <<>> /\ reasoned' = <<>>
              /\ IF ~db_initialized
                 THEN /\ outcome' = "warning"
                      /\ app_pc' = "idle"
                      /\ sub_questions' = <<>> /\ sub_idx' = 0 /\ combined_markdown' = <<>>
                 ELSE /\ outcome' = "running"
                      /\ app_pc' = "retrieve"
                      /\ sub_questions' = subs
                      /\ sub_idx' = IF Len(subs) <= 1 THEN 0 ELSE 1
                      /\ combined_markdown' = IF Len(subs) <= 1 THEN <<>> ELSE <<MergedHeading>>
              /\ chats' = IF db_initialized /\ Len(subs) > 1
                          THEN AppendMessages(s.chats, s.current,
                                              <<UserMessage(NumberedQuestions(subs))>>)
                          ELSE s.chats
    /\ UNCHANGED <<db_initialized, agents, coll_exists, upserted>>

\* an error handler that records what had been merged so far
RecordedOnError_partial(cs, chat_id, parts) ==
    AppendMessages(cs, chat_id, <<AssistantMessage(Merged(parts))>>)

\* lines 200-207 and 492-493: the exception is re-raised out of
\* run_rag_pipeline and shown by main; nothing is added to the chat
RecordedOnError(cs, chat_id, parts) == cs

StageRaised ==
    /\ app_pc' = "idle"
    /\ outcome' = "error"
    /\ chats' = RecordedOnError(chats, current_chat_id, combined_markdown)
    /\ retrieved' = <<>> /\ reasoned' = <<>> /\ combined_markdown' = <<>> /\ sub_idx' = 0

\* lines 174-180: get_agents (lines 29-40; building the RetrieverAgent opens
\* the collection, agents/retriever.py 13-21), then retriever.retrieve
Retrieve ==
    /\ app_pc = "retrieve"
    /\ \E ok \in BOOLEAN :
          /\ calls' = calls
                        \o (IF agents = "None"
                            THEN <<StoreCall("get_or_create_collection", TRUE)>> ELSE <<>>)
                        \o <<Call("retrieve", PipelineQuestion, <<"top_k=2">>, ok)>>
          /\ IF ok
             THEN /\ retrieved' = retrieve(PipelineQuestion, 2)
                  /\ app_pc' = "reason"
                  /\ UNCHANGED <<chats, outcome, reasoned, combined_markdown, sub_idx>>
             ELSE StageRaised
    /\ agents' = "cached"
    /\ coll_exists' = (coll_exists \/ agents = "None")
    /\ UNCHANGED <<current_chat_id, chat_ctr, db_initialized, upserted, ui_question,
                   sub_questions>>

\* line 182
Reason ==
    /\ app_pc = "reason"
    /\ \E ok \in BOOLEAN :
          /\ calls' = Append(calls, Call("reason", PipelineQuestion, retrieved, ok))
          /\ IF ok
             THEN /\ reasoned' = reason(PipelineQuestion, retrieved, 640)
                  /\ app_pc' = "respond"
                  /\ UNCHANGED <<chats, outcome, retrieved, combined_markdown, sub_idx>>
             ELSE StageRaised
    /\ UNCHANGED <<current_chat_id, chat_ctr, db_initialized, agents, coll_exists, upserted,
                   ui_question, sub_questions>>

\* lines 188-199, then lines 461-469 for one question, or lines 479-484 for
\* a list
Respond ==
    /\ app_pc = "respond"
    /\ \E ok \in BOOLEAN :
          LET q == PipelineQuestion
              reasoning_summary == reasoned \o formatting_note
              final_answer == respond(q, reasoning_summary, 768)
              parts == combined_markdown \o <<QuestionHeading(sub_idx, q), final_answer>>
          IN  /\ calls' = Append(calls, Call("respond", q, reasoning_summary, ok))
              /\ IF ~ok THEN StageRaised
                 ELSE IF Len(sub_questions) <= 1
                 THEN /\ chats' = AppendMessages(chats, current_chat_id,
                                     <<UserMessage(ui_question), AssistantMessage(final_answer)>>)
                      /\ outcome' = "answered" /\ app_pc' = "idle"
                      /\ retrieved' = <<>> /\ reasoned' = <<>>
                      /\ combined_markdown' = <<>> /\ sub_idx' = 0
                 ELSE IF sub_idx < Len(sub_questions)
                 THEN /\ combined_markdown' = parts
                      /\ sub_idx' = sub_idx + 1
                      /\ app_pc' = "retrieve"
                      /\ retrieved' = <<>> /\ reasoned' = <<>>
                      /\ UNCHANGED <<chats, outcome>>
                 ELSE /\ chats' = AppendMessages(chats, current_chat_id,
                                     <<AssistantMessage(Merged(parts))>>)
                      /\ outcome' = "answered" /\ app_pc' = "idle"
                      /\ retrieved' = <<>> /\ reasoned' = <<>>
                      /\ combined_markdown' = <<>> /\ sub_idx' = 0
    /\ UNCHANGED <<current_chat_id, chat_ctr, db_initialized, agents, coll_exists, upserted,
                   ui_question, sub_questions>>

AppNext ==
    /\ \/ FirstRun
       \/ NewChat
       \/ SwitchChat
       \/ DeleteChat
       \/ ClearChat
       \/ IngestClick
       \/ SendClick
       \/ Retrieve
       \/ Reason
       \/ Respond
    /\ UNCHANGED <<ct_vars, sq_vars, ing_vars>>

InitApp == ChunkIdle /\ SplitIdle /\ IngestIdle /\ AppInit
SpecApp == InitApp /\ [][AppNext]_vars

(***************************************************************************)
(* Claims about the chat application (checked under SpecApp).              *)
(***************************************************************************)
IsStageCall(c) == c.stage \in Stages
\* the stage invocations of the current script run, in order
StageCalls == SelectSeq(calls, IsStageCall)
CurrentMessages == chats[ChatIndex(chats, current_chat_id)].messages
IsPrefixOf(s, t) == Len(s) <= Len(t) /\ SubSeq(t, 1, Len(s)) = s

\* the three invocations for one sub-question, each stage given the output
\* of the stage before it; the Responder's notes end with `note`
ExpectedRun(q, note) ==
    << Call("retrieve", q, <<"top_k=2">>, TRUE),
       Call("reason", q, retrieve(q, 2), TRUE),
       Call("respond", q, reason(q, retrieve(q, 2), 640) \o note, TRUE) >>

RECURSIVE ExpectedCalls(_, _)
ExpectedCalls(qs, note) ==
    IF qs = <<>> THEN <<>>
    ELSE ExpectedRun(Head(qs), note) \o ExpectedCalls(Tail(qs), note)

\* C11 as stated: for a submission with n > 1 sub-questions and no stage
\* failure the stages are invoked in the order retrieve_1, reason_1,
\* respond_1, retrieve_2, ..., n times each, each stage receiving exactly the
\* output of the stage before it for the same sub-question.
C11_AsStated ==
    (outcome \in {"running", "answered"} /\ Len(sub_questions) > 1) =>
        /\ IsPrefixOf(StageCalls, ExpectedCalls(sub_questions, <<>>))
        /\ outcome = "answered" => StageCalls = ExpectedCalls(sub_questions, <<>>)

\* C11: for a submission with n > 1 sub-questions and no stage failure the
\* stages are invoked in the order retrieve_1, reason_1, respond_1,
\* retrieve_2, ..., n times each; the Reasoner receives the Retriever's
\* output and the Responder receives the Reasoner's output followed by the
\* fixed formatting note, for the same sub-question.
C11_StagesInOrder ==
    (outcome \in {"running", "answered"} /\ Len(sub_questions) > 1) =>
        /\ IsPrefixOf(StageCalls, ExpectedCalls(sub_questions, formatting_note))
        /\ outcome = "answered" => StageCalls = ExpectedCalls(sub_questions, formatting_note)

C11_Witness ==
    /\ app_pc = "idle" /\ outcome = "answered"
    /\ Len(sub_questions) = 2 /\ sub_questions[1] # sub_questions[2]
    /\ Len(StageCalls) = 6

RECURSIVE AssistantCount(_)
\* how many assistant messages the chats hold
AssistantCount(cs) ==
    IF cs = <<>> THEN 0
    ELSE Len(SelectSeq(Head(cs).messages, LAMBDA m : m.role = "assistant"))
            + AssistantCount(Tail(cs))

\* a stage call of this step raised
StageRaises ==
    /\ app_pc \in Stages
    /\ Len(calls') > Len(calls)
    /\ ~calls'[Len(calls')].ok

\* C12: when a stage raises for any sub-question the submission ends with
\* the error shown, no further stage and no further sub-question is run,
\* the failed stage is not called again, and no answer, merged or partial,
\* is recorded: an assistant message enters a chat only at the end of a run
\* in which every call succeeded.
C12_FatalPropagation ==
    [][/\ StageRaises =>
             /\ app_pc' = "idle" /\ outcome' = "error"
             /\ chats' = chats
             /\ Len(SelectSeq(calls', IsStageCall)) = Len(StageCalls) + 1
       /\ (app_pc = "idle" /\ outcome = "error") =>
             SelectSeq(calls', IsStageCall) \in {StageCalls, <<>>}
       /\ AssistantCount(chats') > AssistantCount(chats) =>
             /\ outcome' = "answered"
             /\ \A k \in 1..Len(calls') : calls'[k].ok]_vars

\* the Responder raised for sub-question 2 of 2
C12_Witness ==
    /\ app_pc = "idle" /\ outcome = "error"
    /\ Len(sub_questions) = 2 /\ Len(StageCalls) = 6
    /\ StageCalls[6].stage = "respond" /\ ~StageCalls[6].ok
    /\ AssistantCount(chats) = 0

\* C13: when the splitter yields exactly one sub-question, Retrieve, Reason
\* and Respond are each invoked once, on the string the splitter produced,
\* and the answer recorded for the submission is the Responder's output.
C13_SingleQuestionOnce ==
    (app_pc = "idle" /\ outcome = "answered" /\ Len(sub_questions) = 1) =>
        /\ Len(StageCalls) = 3
        /\ StageCalls[1].stage = "retrieve"
        /\ StageCalls[2].stage = "reason"
        /\ StageCalls[3].stage = "respond"
        /\ \A k \in 1..3 : StageCalls[k].question = sub_questions[1]
        /\ CurrentMessages[Len(CurrentMessages)] =
              AssistantMessage(respond(StageCalls[3].question, StageCalls[3].input, 768))

\* C14: a question that is empty after trimming is never submitted, and a
\* submission whose question yields no sub-question, or an ingest request
\* with no file, makes no call on a stage, the vector store or the
\* generation service.
C14_RejectedBeforeAnyCall ==
    /\ ui_question # <<>> => strip(ui_question) # <<>>
    /\ (ui_question # <<>> /\ split_user_questions(ui_question) = <<>>) => calls = <<>>
    /\ outcome = "no files" => calls = <<>>

\* C15: between script runs every user message of every chat is followed
\* at once by an assistant message, so the log holds only complete
\* (question, answer) pairs, also after a failed submission.
C15_OnlyCompletePairs ==
    app_pc = "idle" =>
        \A c \in 1..Len(chats) :
            LET ms == chats[c].messages
            IN  \A k \in 1..Len(ms) :
                    ms[k].role = "user" => (k < Len(ms) /\ ms[k + 1].role = "assistant")

\* C18: after the first chat was created, every create, switch and delete
\* leaves the chats non-empty with current_chat_id one of their keys, and
\* deleting a chat other than the current one leaves current_chat_id as it
\* was.
C18_CurrentChatListed ==
    [][/\ chats' # <<>>
       /\ current_chat_id' \in ChatIds(chats')
       /\ (ChatIds(chats') # ChatIds(chats) /\ ChatIds(chats') \subseteq ChatIds(chats)
              /\ current_chat_id \in ChatIds(chats')) =>
             current_chat_id' = current_chat_id]_vars

\* the current chat was deleted and an older one took its place
C18_Witness ==
    /\ app_pc = "idle"
    /\ chat_ctr = 2 /\ Len(chats) = 1
    /\ current_chat_id = "chat0" /\ chats[1].id = "chat0"

\* C19: a stage is only ever called with db_initialized true, and
\* db_initialized is true only when an ingestion of this session upserted
\* at least one chunk.
C19_InitializedMeansUpserted ==
    /\ StageCalls # <<>> => db_initialized
    /\ db_initialized => upserted

====
